---- MODULE Spec2Model ----
(***************************************************************************)
(* FSPeptide (nas/data): the cache-or-fetch-then-load dataset handle.      *)
(* The file system under root/FSPeptide, the constructor, the fetch        *)
(* procedure download() and the accessors, one action per statement group. *)
(***************************************************************************)
EXTENDS Integers, Sequences, FiniteSets, TLC

\* Largest number of samples an archive's array holds in the model.
MaxSamples == 1

\* read_image_file reshapes to (-1, 21, 21, 1): 21 * 21 * 1 scalars per sample.
SampleSize == 21 * 21 * 1

\* urls[1..6] and the processed file written from each, in the order of the
\* class attributes: train, validation, test; contact maps before labels.
Files == 1..6
Partitions == {"train", "validation", "test"}
PartitionArgs == Partitions \cup {"bogus"}
IsContactmap(u) == u \in {1, 3, 5}

\* What a path holds: nothing, a file cut short by a failed write, or an array.
Absent == [kind |-> "absent", src |-> 0, n |-> 0]
Truncated == [kind |-> "truncated", src |-> 0, n |-> 0]
Unset == [kind |-> "unset", src |-> 0, n |-> 0]
NoHandle == [partition |-> "none", data |-> Unset, targets |-> Unset]
NoValue == <<>>
NoArgs == [partition |-> "none", download |-> FALSE, idx |-> 0]

\* The 'arry' array a remote archive can hold: its source url and its number
\* of scalars. Contact maps: no sample, MaxSamples whole samples, or one
\* scalar too many; labels: any count up to MaxSamples.
ArchiveSizes(u) ==
    IF IsContactmap(u)
    THEN {0, SampleSize * MaxSamples, SampleSize * MaxSamples + 1}
    ELSE 0..MaxSamples
Archives(u) == {[kind |-> "array", src |-> u, n |-> s] : s \in ArchiveSizes(u)}

NoAttempts == [u \in Files |-> 0]
NoSets == [f \in Files |-> Unset]
IdxRange == (0 - (MaxSamples + 1))..(MaxSamples + 1)

VARIABLES
    dirs,         \* which of raw/ and processed/ exist
    raw,          \* raw[u]: the archive stored under raw/ for urls[u], or Absent
    processed,    \* processed[f]: the array stored in processed file f, Absent or Truncated
    pc,           \* the statement the running call is at, "idle" between calls
    i,            \* loop position inside download()
    sets,         \* training_set, validation_set, test_set read so far
    op,           \* the call in progress or last completed
    args,         \* its arguments
    result,       \* its outcome: "running", "ok" or the error raised
    ret,          \* its return value
    data,         \* self.data between lines 64 and 65
    handle,       \* the constructed object's data and targets, or NoHandle
    fetchStatus,  \* outcome of the download() invocation of the previous call, or of this one
    attempts,     \* download_url calls per url made by the call in progress or last completed
    freshRoot     \* the root was empty when the last constructor call began

vars == <<dirs, raw, processed, pc, i, sets, op, args, result, ret, data,
          handle, fetchStatus, attempts, freshRoot>>
fs == <<dirs, raw, processed>>

\* The statements of download() after its pre-flight check.
FetchPcs == {"mkraw", "mkproc", "url", "extract", "read", "save"}
\* What a failing step of download() raises.
FetchErrors == {"IOError", "ReshapeError"}

Exists(f) == processed[f] # Absent

CheckExistsTrainOnly == Exists(1) /\ Exists(2)
CheckExists == \A f \in Files : Exists(f)

DataFile(p) == CASE p = "train" -> 1 [] p = "validation" -> 3 [] p = "test" -> 5
LabelFile(p) == CASE p = "train" -> 2 [] p = "validation" -> 4 [] p = "test" -> 6

\* arry.reshape(-1, 21, 21, 1): defined only when the size divides evenly.
CanReshape(a) == a.n % SampleSize = 0
Reshape(a) == [kind |-> "array", src |-> a.src, n |-> a.n \div SampleSize]

\* len() of a loaded array and numpy integer indexing of its first axis.
Length(a) == a.n
InBoundsOffByOne(a, idx) == idx <= Length(a) /\ idx >= 0 - Length(a)
InBounds(a, idx) == idx < Length(a) /\ idx >= 0 - Length(a)
Item(a, idx) == <<a.src, IF idx >= 0 THEN idx ELSE Length(a) + idx>>

\* __init__ never assigns self.transform or self.target_transform.
HasTransform == FALSE

RemoveFinished == FALSE

Init ==
    /\ dirs = [rawdir |-> FALSE, procdir |-> FALSE]
    /\ raw = [u \in Files |-> Absent]
    /\ processed = [f \in Files |-> Absent]
    /\ pc = "idle"
    /\ i = 1
    /\ sets = NoSets
    /\ op = "none"
    /\ args = NoArgs
    /\ result = "ok"
    /\ ret = NoValue
    /\ data = Unset
    /\ handle = NoHandle
    /\ fetchStatus = "none"
    /\ attempts = NoAttempts
    /\ freshRoot = TRUE

----------------------------------------------------------------------------
\* FSPeptide(root, partition, download): lines 41-45.
Construct(p, dl) ==
    /\ pc = "idle"
    /\ op' = "init"
    /\ args' = [partition |-> p, download |-> dl, idx |-> 0]
    /\ result' = "running"
    /\ ret' = NoValue
    /\ data' = Unset
    /\ handle' = NoHandle
    /\ freshRoot' = (~dirs.rawdir /\ ~dirs.procdir)
    /\ pc' = IF dl THEN "download" ELSE "check"
    /\ fetchStatus' = IF dl THEN fetchStatus ELSE "none"
    /\ attempts' = NoAttempts
    /\ UNCHANGED <<dirs, raw, processed, i, sets>>

\* handle.download() called directly on a constructed object.
CallDownload ==
    /\ pc = "idle"
    /\ handle # NoHandle
    /\ op' = "download"
    /\ result' = "running"
    /\ ret' = NoValue
    /\ pc' = "download"
    /\ args' = NoArgs
    /\ attempts' = NoAttempts
    /\ UNCHANGED <<dirs, raw, processed, i, sets, data, handle,
                   fetchStatus, freshRoot>>

\* download() returns normally to its caller.
DownloadReturns ==
    /\ fetchStatus' = "ok"
    /\ IF op = "init"
       THEN pc' = "check" /\ UNCHANGED result
       ELSE pc' = "idle" /\ result' = "ok"

DownloadRaisesSwallowed(e) ==
    /\ fetchStatus' = "failed"
    /\ pc' = IF op = "init" THEN "check" ELSE "idle"
    /\ result' = IF op = "init" THEN result ELSE "ok"

\* An exception leaves download(): nothing catches it, the call ends with it.
DownloadRaises(e) ==
    /\ fetchStatus' = "failed"
    /\ pc' = "idle"
    /\ result' = e

AlreadyDownloadedIgnored == FALSE

\* download(), line 122: the pre-flight check.
AlreadyDownloaded == CheckExists

\* download(), lines 122-123.
DownloadEntry ==
    /\ pc = "download"
    /\ IF AlreadyDownloaded
       THEN DownloadReturns /\ UNCHANGED i
       ELSE /\ fetchStatus' = "running"
            /\ pc' = "mkraw"
            /\ i' = 1
            /\ UNCHANGED result
    /\ UNCHANGED <<dirs, raw, processed, sets, op, args, ret, data, handle,
                   attempts, freshRoot>>

\* makedir_exist_ok(self.raw_folder), line 125.
MakeRawDir ==
    /\ pc = "mkraw"
    /\ \/ /\ dirs' = [dirs EXCEPT !.rawdir = TRUE]
          /\ pc' = "mkproc"
          /\ UNCHANGED <<result, fetchStatus>>
       \/ /\ DownloadRaises("IOError")
          /\ UNCHANGED dirs
    /\ UNCHANGED <<raw, processed, i, sets, op, args, ret, data, handle,
                   attempts, freshRoot>>

\* makedir_exist_ok(self.processed_folder), line 126.
MakeProcessedDir ==
    /\ pc = "mkproc"
    /\ \/ /\ dirs' = [dirs EXCEPT !.procdir = TRUE]
          /\ pc' = "url"
          /\ i' = 1
          /\ UNCHANGED <<result, fetchStatus>>
       \/ /\ DownloadRaises("IOError")
          /\ UNCHANGED <<dirs, i>>
    /\ UNCHANGED <<raw, processed, sets, op, args, ret, data, handle,
                   attempts, freshRoot>>

\* download_url(url, root=self.raw_folder, filename=filename), line 132: a
\* file already stored under that name is kept, otherwise the archive the
\* remote end serves is stored, or the transfer fails.
DownloadUrl ==
    /\ pc = "url"
    /\ attempts' = [attempts EXCEPT ![i] = @ + 1]
    /\ \/ /\ raw[i] # Absent
          /\ pc' = "extract"
          /\ UNCHANGED <<raw, result, fetchStatus>>
       \/ /\ raw[i] = Absent
          /\ \E a \in Archives(i) : raw' = [raw EXCEPT ![i] = a]
          /\ pc' = "extract"
          /\ UNCHANGED <<result, fetchStatus>>
       \/ /\ raw[i] = Absent
          /\ DownloadRaises("IOError")
          /\ UNCHANGED raw
    /\ i' = IF pc' = "idle" THEN 1 ELSE i
    /\ UNCHANGED <<dirs, processed, sets, op, args, ret, data, handle, freshRoot>>

\* extract_array(npz_path, remove_finished=False), lines 112-117 and 133,
\* and the loop's step to the next url.
ExtractArray ==
    /\ pc = "extract"
    /\ \/ /\ raw' = IF RemoveFinished THEN [raw EXCEPT ![i] = Absent] ELSE raw
          /\ IF i < 6
             THEN pc' = "url" /\ i' = i + 1
             ELSE pc' = "read" /\ i' = 1
          /\ UNCHANGED <<result, fetchStatus>>
       \/ /\ DownloadRaises("IOError")
          /\ i' = 1
          /\ UNCHANGED raw
    /\ UNCHANGED <<dirs, processed, sets, op, args, ret, data, handle,
                   attempts, freshRoot>>

\* read_image_file / read_label_file of archive i, lines 138-149, 180-190.
ReadFile ==
    /\ pc = "read"
    /\ \/ /\ raw[i] # Absent
          /\ IsContactmap(i) => CanReshape(raw[i])
          /\ sets' = [sets EXCEPT ![i] = IF IsContactmap(i) THEN Reshape(raw[i]) ELSE raw[i]]
          /\ IF i < 6
             THEN pc' = "read" /\ i' = i + 1
             ELSE pc' = "save" /\ i' = 1
          /\ UNCHANGED <<result, fetchStatus>>
       \/ /\ raw[i] # Absent
          /\ IsContactmap(i) /\ ~CanReshape(raw[i])
          /\ DownloadRaises("ReshapeError")
          /\ sets' = NoSets /\ i' = 1
       \/ /\ DownloadRaises("IOError")
          /\ sets' = NoSets /\ i' = 1
    /\ UNCHANGED <<dirs, raw, processed, op, args, ret, data, handle,
                   attempts, freshRoot>>

SavePathSlip(k) == IF k = 6 THEN 5 ELSE k

\* The processed file the k-th np.save writes, lines 152-167.
SavePath(k) == k

\* np.save(path, array) of processed file i, lines 151-169: the file is
\* opened for writing, then written; a failure leaves the file as it was
\* (open failed) or cut short (write failed).
SaveFile ==
    /\ pc = "save"
    /\ \/ /\ processed' = [processed EXCEPT ![SavePath(i)] = sets[i]]
          /\ IF i < 6
             THEN pc' = "save" /\ i' = i + 1 /\ UNCHANGED <<result, fetchStatus>>
             ELSE DownloadReturns /\ i' = 1
       \/ /\ \E left \in {processed[SavePath(i)], Truncated} :
                processed' = [processed EXCEPT ![SavePath(i)] = left]
          /\ DownloadRaises("IOError")
          /\ i' = 1
    /\ sets' = IF pc' = "save" THEN sets ELSE NoSets
    /\ UNCHANGED <<dirs, raw, op, args, ret, data, handle, attempts, freshRoot>>

----------------------------------------------------------------------------
\* __init__, lines 47-49.
InitCheck ==
    /\ pc = "check"
    /\ IF CheckExists
       THEN pc' = "partition" /\ UNCHANGED result
       ELSE pc' = "idle" /\ result' = "DatasetNotFound"
    /\ UNCHANGED <<dirs, raw, processed, i, sets, op, args, ret, data, handle,
                   fetchStatus, attempts, freshRoot>>

\* __init__, lines 51-62.
InitPartition ==
    /\ pc = "partition"
    /\ IF args.partition \in Partitions
       THEN pc' = "load_data" /\ UNCHANGED result
       ELSE pc' = "idle" /\ result' = "BadPartition"
    /\ UNCHANGED <<dirs, raw, processed, i, sets, op, args, ret, data, handle,
                   fetchStatus, attempts, freshRoot>>

\* self.data = np.load(processed_folder/data_file), line 64.
InitLoadData ==
    /\ pc = "load_data"
    /\ \/ /\ processed[DataFile(args.partition)].kind = "array"
          /\ data' = processed[DataFile(args.partition)]
          /\ pc' = "load_targets"
          /\ UNCHANGED result
       \/ /\ pc' = "idle"
          /\ result' = "IOError"
          /\ UNCHANGED data
    /\ UNCHANGED <<dirs, raw, processed, i, sets, op, args, ret, handle,
                   fetchStatus, attempts, freshRoot>>

\* self.targets = np.load(processed_folder/label_file), line 65; the
\* constructor returns the object.
InitLoadTargets ==
    /\ pc = "load_targets"
    /\ \/ /\ processed[LabelFile(args.partition)].kind = "array"
          /\ handle' = [partition |-> args.partition, data |-> data,
                        targets |-> processed[LabelFile(args.partition)]]
          /\ result' = "ok"
       \/ /\ result' = "IOError"
          /\ UNCHANGED handle
    /\ pc' = "idle"
    /\ data' = Unset
    /\ UNCHANGED <<dirs, raw, processed, i, sets, op, args, ret,
                   fetchStatus, attempts, freshRoot>>

----------------------------------------------------------------------------
\* The accessors of a constructed object.
Accessor(name, idx, res, value) ==
    /\ pc = "idle"
    /\ handle # NoHandle
    /\ op' = name
    /\ args' = [NoArgs EXCEPT !.idx = idx]
    /\ result' = res
    /\ ret' = value
    /\ fetchStatus' = "none"
    /\ attempts' = NoAttempts
    /\ UNCHANGED <<dirs, raw, processed, pc, i, sets, data, handle, freshRoot>>

\* __len__, lines 67-68.
LenOf(h) == Length(h.data)
GetLen == Accessor("len", 0, "ok", <<LenOf(handle)>>)

\* load_data, lines 70-71.
LoadData == Accessor("load_data", 0, "ok", <<handle.data, handle.targets>>)

\* __getitem__, lines 85-93: the outcome and the value returned.
GetItemResult(h, idx) ==
    IF ~InBounds(h.data, idx) \/ ~InBounds(h.targets, idx) THEN "IndexError"
    ELSE IF ~HasTransform THEN "AttributeError"
    ELSE "ok"
GetItemValue(h, idx) ==
    IF GetItemResult(h, idx) = "ok"
    THEN <<Item(h.data, idx), Item(h.targets, idx)>>
    ELSE NoValue
GetItem(idx) ==
    Accessor("getitem", idx, GetItemResult(handle, idx), GetItemValue(handle, idx))

\* __repr__, lines 171-177.
Repr == Accessor("repr", 0, "ok", <<LenOf(handle), handle.partition>>)

Next ==
    \/ \E p \in PartitionArgs, dl \in BOOLEAN : Construct(p, dl)
    \/ CallDownload
    \/ DownloadEntry
    \/ MakeRawDir
    \/ MakeProcessedDir
    \/ DownloadUrl
    \/ ExtractArray
    \/ ReadFile
    \/ SaveFile
    \/ InitCheck
    \/ InitPartition
    \/ InitLoadData
    \/ InitLoadTargets
    \/ GetLen
    \/ LoadData
    \/ \E idx \in IdxRange : GetItem(idx)
    \/ Repr

Spec == Init /\ [][Next]_vars

----------------------------------------------------------------------------
\* C1: a construction with download=False on a cache that lacks at least one
\* of the six processed files ends with the missing-cache error, whatever the
\* partition argument; it loads no array and produces no handle.
C1_MissingCacheError ==
    (op = "init" /\ ~args.download /\ (\E f \in Files : processed[f] = Absent))
        => /\ pc \in {"check", "idle"}
           /\ data = Unset
           /\ handle = NoHandle
           /\ pc = "idle" => result = "DatasetNotFound"

\* The requested partition's two files are present, another partition's is not.
C1_Witness ==
    /\ pc = "idle" /\ op = "init" /\ ~args.download
    /\ args.partition = "train"
    /\ processed[1].kind = "array" /\ processed[2].kind = "array"
    /\ processed[6] = Absent
    /\ result = "DatasetNotFound"

\* C2: a construction with a partition outside train/validation/test touches
\* nothing (no directory, no archive, no processed file written or read) and
\* ends with the invalid-partition error, in every cache state and for both
\* values of the download flag.
C2_BadPartitionBeforeIO ==
    [][(op' = "init" /\ args'.partition \notin Partitions)
          => /\ fs' = fs
             /\ attempts' = NoAttempts
             /\ data' = Unset
             /\ pc' \notin FetchPcs
             /\ pc' = "idle" => result' = "BadPartition"]_vars

\* C3: a download() invoked directly after a download() that ran and
\* returned takes the short cut: no download_url call, no directory made,
\* every raw and processed file left as it was.
C3_DownloadIdempotent ==
    [][(pc = "download" /\ fetchStatus = "ok")
          => /\ fs' = fs
             /\ attempts' = NoAttempts
             /\ fetchStatus' = "ok"
             /\ pc' \in {"check", "idle"}]_vars

\* A second invocation has been made right after one that returned normally
\* with the six processed files written.
C3_Witness ==
    /\ pc = "download" /\ fetchStatus = "ok"
    /\ \A f \in Files : processed[f].kind = "array"
    /\ \A u \in Files : raw[u] # Absent

C5_ItemReturnsPair ==
    (/\ op = "getitem" /\ args.idx >= 0 /\ args.idx < LenOf(handle)
     /\ args.idx < Length(handle.targets))
        => /\ result = "ok"
           /\ ret = <<<<DataFile(handle.partition), args.idx>>,
                      <<LabelFile(handle.partition), args.idx>>>>

\* C6: every constructed handle holds as many labels as feature samples, and
\* length() is that number.
C6_EqualLengths ==
    handle # NoHandle
        => /\ Length(handle.data) = Length(handle.targets)
           /\ LenOf(handle) = Length(handle.targets)

\* C7: partition 'train', download=True on an empty root, no step failing:
\* six raw archives kept, the processed pair present, no missing-cache error,
\* and length() is the sample count of train-labels.npz's array.
C7_EndToEnd ==
    (/\ pc = "idle" /\ op = "init" /\ freshRoot
     /\ args.partition = "train" /\ args.download
     /\ result \notin FetchErrors)
        => /\ \A u \in Files : raw[u] # Absent
           /\ processed[1].kind = "array" /\ processed[2].kind = "array"
           /\ result = "ok"
           /\ handle # NoHandle
           /\ LenOf(handle) = raw[2].n

\* C8: an error in a step of download() leaves download() and the
\* constructor at once: no url is tried twice, no later step runs, and the
\* construction ends with that error and no handle.
C8_FetchErrorPropagates ==
    /\ \A u \in Files : attempts[u] <= 1
    /\ pc \in FetchPcs => fetchStatus = "running"
    /\ fetchStatus = "failed"
         => /\ pc \in {"idle", "download"}
            /\ pc = "idle" => /\ result \in FetchErrors
                              /\ op = "init" => handle = NoHandle

\* The third download or extraction failed.
C8_Witness ==
    /\ fetchStatus = "failed" /\ pc = "idle" /\ op = "init"
    /\ attempts[3] = 1 /\ attempts[4] = 0
    /\ result = "IOError"
    /\ handle = NoHandle

\* C9: once the six processed files exist no step changes a directory, a raw
\* or a processed file; only the body of the fetch procedure ever writes, and
\* it never runs for a constructor called with download=False.
C9_CacheFrozen ==
    [][/\ (\A f \in Files : processed[f] # Absent) => fs' = fs
       /\ fs' # fs => pc \in FetchPcs
       /\ pc' \in FetchPcs => (op' = "init" => args'.download)]_vars

\* A construction with download=True ran on a complete cache and made no
\* download_url call.
C9_Witness ==
    /\ pc = "idle" /\ op = "init" /\ args.download
    /\ ~freshRoot
    /\ attempts = NoAttempts
    /\ result = "ok"
    /\ \A f \in Files : processed[f] # Absent

\* C10: after every failed fetch at least one processed file is missing, so
\* the next construction re-runs the fetch or raises the missing-cache error.
C10_FailedFetchLeavesIncomplete ==
    fetchStatus = "failed" => \E f \in Files : processed[f] = Absent

====
